---- MODULE Spec2Model ----
(***************************************************************************)
(* AutoDoc: source parsing, cached bounded-parallel documentation          *)
(* generation, and grouping of the results for rendering.                  *)
(*                                                                         *)
(* Generator (AutoDoc/ai.py, AIDocGenerator): one run of generate_docs is  *)
(* a main thread that submits every unit to a ThreadPoolExecutor and       *)
(* collects the futures in input order, and one task per unit that runs    *)
(* _generate_doc_for_unit on a pool worker.  The cache directory is a map  *)
(* from file path to file content; the text-generation backend is an       *)
(* external service that answers each request with a text or an error.     *)
(*                                                                         *)
(* Parser (AutoDoc/parser.py, CodeParser): parse walks the source          *)
(* directory with os.walk, in the order the file system lists entries, and *)
(* _parse_file turns each .py file into its CodeUnits.  A source file is   *)
(* the sequence of its statements, from which its lines and its syntax     *)
(* tree are laid out.                                                      *)
(*                                                                         *)
(* Renderer (AutoDoc/renderer.py, DocumentationRenderer): _group_docs      *)
(* groups a list of results by module, by type or not at all.              *)
(*                                                                         *)
(* Each component has its own specification; the variables of the other    *)
(* components stay at rest.                                                *)
(***************************************************************************)
EXTENDS Integers, Sequences, FiniteSets, TLC

\* Longest input list of the mixed scenarios.
MaxUnits == 2

\* Most top-level statements of a source file.
MaxStmts == 2

\* Longest list of results given to the renderer.
MaxDocs == 3

\* ThreadPoolExecutor(max_workers=10)
MaxWorkers == 10

\* Python's None, for Optional[str] values.
None == "<None>"

(***************************************************************************)
(* CodeUnit (parser.py) and the units of the runs.                         *)
(***************************************************************************)
CodeUnit(type, name, source, docstring, file_path, module_path, line_start, line_end, parent) ==
    [type |-> type, name |-> name, source |-> source, docstring |-> docstring,
     file_path |-> file_path, module_path |-> module_path,
     line_start |-> line_start, line_end |-> line_end, parent |-> parent]

\* The file a.py whose whole text is the annotation statement "b:x".
uModA == CodeUnit("module", "a", "b:x", None, "a.py", "a", 1, 1, None)

\* The file a:b.py whose whole text is the expression "x".
uModAB == CodeUnit("module", "a:b", "x", None, "a:b.py", "a:b", 1, 1, None)

\* The same method text declared in class A of p.py and in class B of q.py.
uMethP == CodeUnit("method", "f", "def f(self): pass", None, "p.py", "p", 2, 2, "A")
uMethQ == CodeUnit("method", "f", "def f(self): pass", None, "q.py", "q", 5, 5, "B")

Universe == {uModA, uModAB, uMethP, uMethQ}

\* Every input list of at most MaxUnits units (equal units included).
InputLists == UNION {[1..n -> Universe] : n \in 0..MaxUnits}

\* One more unit than the pool has workers: the functions of one file r.py.
PoolList ==
    [i \in 1..(MaxWorkers + 1) |->
        CodeUnit("function", "g", "def g(): pass", None, "r.py", "r", i, i, None)]

(***************************************************************************)
(* The backend: the answers chain.invoke may give to one request.          *)
(***************************************************************************)
Text(t) == [ok |-> TRUE, text |-> t]
Failure(e) == [ok |-> FALSE, error |-> e]

AllAnswers == {Text(""), Text("new doc"), Failure("quota exceeded")}

(***************************************************************************)
(* The cache directory: one file per key.                                  *)
(***************************************************************************)
CacheDirName == ".autodoc_cache"

Absent == [kind |-> "absent"]
\* What json.dump({"documentation": d}, f) leaves in the file once closed.
JsonDoc(d) == [kind |-> "json_doc", documentation |-> d]
\* What open(cache_file, "w") leaves before anything is written.
Empty == [kind |-> "empty"]
\* Contents a cache directory may hold from elsewhere.
InvalidJson == [kind |-> "invalid_json"]        \* not JSON at all
NotObject == [kind |-> "not_object"]            \* valid JSON, e.g. [] or 3
NoField == [kind |-> "no_field"]                \* {} without "documentation"
Undecodable == [kind |-> "undecodable"]         \* bytes that are not text
Unreadable == [kind |-> "unreadable"]           \* exists, open() is refused

StoredContents ==
    {JsonDoc(""), JsonDoc("old doc"), InvalidJson, NotObject, NoField, Undecodable,
     Unreadable}

\* hashlib.md5(...).hexdigest(): collision-free on the inputs of a run.
Md5(s) == "md5(" \o s \o ")"

\* hash_input = f"{code_unit.type}:{code_unit.name}:{code_unit.source}"
HashInput(code_unit) ==
    code_unit.type \o ":" \o code_unit.name \o ":" \o code_unit.source

\* _get_cache_key
GetCacheKey(dir, code_unit) ==
    IF dir = None THEN None ELSE Md5(HashInput(code_unit))

\* os.path.join(self.cache_dir, f"{cache_key}.json")
CacheFile(dir, cache_key) == dir \o "/" \o cache_key \o ".json"

Paths == {CacheFile(CacheDirName, GetCacheKey(CacheDirName, u)) : u \in Universe}

\* The outcome of a call: a returned value or a raised exception.
Return(v) == [raised |-> FALSE, value |-> v]
Raise(e) == [raised |-> TRUE, exc |-> e]

\* with open(cache_file, "r") as f: return json.load(f)["documentation"]
\* under except (json.JSONDecodeError, KeyError): return None
ReadEntry(content) ==
    CASE content.kind = "json_doc" -> Return(content.documentation)
      [] content.kind = "empty" -> Return(None)          \* JSONDecodeError
      [] content.kind = "invalid_json" -> Return(None)   \* JSONDecodeError
      [] content.kind = "no_field" -> Return(None)       \* KeyError
      [] content.kind = "not_object" -> Raise("TypeError")
      [] content.kind = "undecodable" -> Raise("UnicodeDecodeError")
      [] content.kind = "unreadable" -> Raise("PermissionError")

\* _get_cached_doc
GetCachedDoc(dir, cache_key, fs) ==
    IF dir = None \/ cache_key = None THEN Return(None)
    ELSE IF fs[CacheFile(dir, cache_key)].kind # "absent"
         THEN ReadEntry(fs[CacheFile(dir, cache_key)])
         ELSE Return(None)

\* Python truthiness of an Optional[str]: `if cached_doc:`
Truthy(v) == v # None /\ v # ""

(***************************************************************************)
(* The dictionaries _generate_doc_for_unit returns.                        *)
(***************************************************************************)
CachedResult(code_unit, cached_doc) ==
    [unit |-> code_unit, documentation |-> cached_doc, from_cache |-> TRUE]

GeneratedResult(code_unit, d) ==
    [unit |-> code_unit, documentation |-> d, from_cache |-> FALSE]

ErrorResult(code_unit, e) ==
    [unit |-> code_unit,
     documentation |-> "# " \o code_unit.name \o "\n\nError generating documentation: " \o e,
     from_cache |-> FALSE, error |-> e]

\* The chain a unit's type selects; None for a type without a chain.
ChainFor(code_unit) ==
    CASE code_unit.type \in {"function", "method"} -> "function_chain"
      [] code_unit.type = "class" -> "class_chain"
      [] code_unit.type = "module" -> "module_chain"
      [] OTHER -> None

DefaultDoc(code_unit) ==
    "# " \o code_unit.name \o "\n\nNo documentation available for this type of code unit."

(***************************************************************************)
(* State.                                                                  *)
(***************************************************************************)
VARIABLES
    units,      \* the code_units argument of generate_docs
    cache_dir,  \* self.cache_dir
    backend,    \* the answers the backend may give in this run
    writable,   \* whether the cache directory accepts open(cache_file, "w")
    files,      \* the cache directory: path -> content
    phase,      \* main thread: idle, running, raising, returned, raised
    pc,         \* per task: none, queued, started, backend, write, done, cancelled
    fut,        \* per task: the future's outcome once done
    doc,        \* per task: the local `doc` while the cache file is open
    results,    \* the list that list(executor.map(...)) has built so far
    calls,      \* per task: number of chain.invoke calls made
    answer      \* per task: what the backend answered

generator_vars ==
    <<units, cache_dir, backend, writable, files, phase, pc, fut, doc, results,
      calls, answer>>

\* CodeParser and its walk over the source directory (parser.py).
VARIABLES
    tree,           \* the directories under source_dir: path -> sub-directories and files
    contents,       \* the files under source_dir: path -> content
    exclude_dirs,   \* self.exclude_dirs
    parse_state,    \* CodeParser.parse: idle, walking, returned, raised
    parse_exc,      \* the exception that left parse, or None
    walk_stack,     \* the directories os.walk has still to yield, next first
    walk_root,      \* `root` of the triple os.walk yielded last
    walk_files,     \* what is left of `files` in the loop over that triple
    visited,        \* the files handed to _parse_file so far, in order
    code_units      \* the list parse builds

parser_vars ==
    <<tree, contents, exclude_dirs, parse_state, parse_exc, walk_stack, walk_root,
      walk_files, visited, code_units>>

\* DocumentationRenderer (renderer.py).
VARIABLES
    docs,           \* the list of result dictionaries given to the renderer
    group_by,       \* self.group_by
    doc_format,     \* self.format
    grouped,        \* the dict _group_docs returned, as the sequence of its items
    render_state,   \* idle, grouped, rendered
    rendered,       \* how many results the page loop of render has been through
    pages           \* the files of the output directory

renderer_vars == <<docs, group_by, doc_format, grouped, render_state, rendered, pages>>

(***************************************************************************)
(* config.py: the values of a configuration.  A dictionary is a function   *)
(* from its keys; a value is a text, a dictionary of the file just read,   *)
(* or a reference to one of the section dictionaries of DEFAULT_CONFIG,    *)
(* which are objects shared by every dictionary that refers to them.       *)
(***************************************************************************)
Scalar(v) == [kind |-> "scalar", v |-> v]
Dict(items) == [kind |-> "dict", items |-> items]
Ref(id) == [kind |-> "ref", id |-> id]

\* The sections "ai" and "output" of DEFAULT_CONFIG, as written in config.py,
\* with the keys model, format and group_by.
DefaultSections ==
    ("ai" :> ("model" :> "models/gemini-1.5-flash"))
        @@ ("output" :> (("format" :> "markdown") @@ ("group_by" :> "module")))

\* DEFAULT_CONFIG: each key holds its section dictionary.
DefaultConfig == [k \in DOMAIN DefaultSections |-> Ref(k)]

\* What load_config finds: no file at all, a file with an extension it does
\* not support, an empty YAML file (yaml.safe_load returns None), or a file
\* holding a mapping.
NoFile == [kind |-> "none"]
Unsupported == [kind |-> "unsupported"]
EmptyYaml == [kind |-> "parsed_none"]
Mapping(user_config) == [kind |-> "mapping", user_config |-> user_config]

\* The mappings a user's file may hold.
UserConfigs ==
    {<<>>,
     "output" :> Dict("format" :> "html"),
     "output" :> Dict("group_by" :> "type"),
     "output" :> Dict("theme" :> "dark"),
     "output" :> Scalar("html"),
     "ai" :> Dict("model" :> "gpt"),
     "extra" :> Dict("k" :> "v"),
     ("ai" :> Dict("model" :> "gpt")) @@ ("output" :> Dict("format" :> "html"))}

ConfigFiles == {NoFile, Unsupported, EmptyYaml} \cup {Mapping(u) : u \in UserConfigs}

\* How many times load_config is called.
MaxLoads == 3

VARIABLES
    sections,       \* the section dictionaries of DEFAULT_CONFIG
    config,         \* the dictionary the last call of load_config returned
    config_file,    \* the file the last call of load_config found
    load_state,     \* idle, returned, raised
    load_exc,       \* the exception that left the last call
    loads           \* the calls of load_config so far

config_vars == <<sections, config, config_file, load_state, load_exc, loads>>

vars == <<generator_vars, parser_vars, renderer_vars, config_vars>>

\* The module config as imported, load_config never called.
ConfigAtRest ==
    /\ sections = DefaultSections
    /\ config = <<>>
    /\ config_file = NoFile
    /\ load_state = "idle"
    /\ load_exc = None
    /\ loads = 0

\* A parser constructed on an empty source directory and never run.
ParserAtRest ==
    /\ tree = [d \in {<<>>} |-> [dirs |-> {}, files |-> {}]]
    /\ contents = <<>>
    /\ exclude_dirs = <<>>
    /\ parse_state = "idle"
    /\ parse_exc = None
    /\ walk_stack = <<>>
    /\ walk_root = <<>>
    /\ walk_files = <<>>
    /\ visited = <<>>
    /\ code_units = <<>>

\* A renderer that is given nothing.
RendererAtRest ==
    /\ docs = <<>>
    /\ group_by = "module"
    /\ doc_format = "markdown"
    /\ grouped = <<>>
    /\ render_state = "idle"
    /\ rendered = 0
    /\ pages = <<>>

\* A step of one component leaves the other components alone.
GeneratorStep == UNCHANGED <<parser_vars, renderer_vars, config_vars>>
ParserStep == UNCHANGED <<generator_vars, renderer_vars, config_vars>>

Tasks == 1..Len(units)

Pending == [state |-> "pending"]
NoAnswer == [ok |-> FALSE, error |-> None]

\* Tasks that occupy a pool worker.
Busy == {i \in Tasks : pc[i] \in {"started", "backend", "write"}}

\* Backend requests in flight.
InFlight == {i \in Tasks : pc[i] = "backend"}

NoFiles == [p \in Paths |-> Absent]

\* The cache directory before the run: empty, or holding one entry.
InitFiles(us, dir) ==
    IF dir = None THEN {NoFiles}
    ELSE {NoFiles} \cup
         {[NoFiles EXCEPT ![CacheFile(dir, GetCacheKey(dir, us[i]))] = c] :
             i \in 1..Len(us), c \in StoredContents}

InitRun ==
    /\ phase = "idle"
    /\ pc = [i \in Tasks |-> "none"]
    /\ fut = [i \in Tasks |-> Pending]
    /\ doc = [i \in Tasks |-> None]
    /\ results = <<>>
    /\ calls = [i \in Tasks |-> 0]
    /\ answer = [i \in Tasks |-> NoAnswer]

\* Short lists of any units, any cache directory, any backend answer.
Init ==
    /\ units \in InputLists
    /\ cache_dir \in {None, CacheDirName}
    /\ backend = AllAnswers
    /\ writable \in (IF cache_dir = None THEN {TRUE} ELSE BOOLEAN)
    /\ files \in InitFiles(units, cache_dir)
    /\ InitRun
    /\ ParserAtRest
    /\ RendererAtRest
    /\ ConfigAtRest

\* A list longer than the pool, caching disabled, a backend that answers.
InitPool ==
    /\ units = PoolList
    /\ cache_dir = None
    /\ backend = {Text("new doc")}
    /\ writable = TRUE
    /\ files = NoFiles
    /\ InitRun
    /\ ParserAtRest
    /\ RendererAtRest
    /\ ConfigAtRest

(***************************************************************************)
(* generate_docs: the main thread.                                         *)
(***************************************************************************)
\* executor.map submits one future per unit, in input order.
SubmitAll(p) == [i \in DOMAIN p |-> "queued"]

GenerateDocs ==
    /\ phase = "idle"
    /\ phase' = "running"
    /\ pc' = SubmitAll(pc)
    /\ UNCHANGED <<units, cache_dir, backend, writable, files, fut, doc, results, calls,
                   answer>>

\* A pool that starts a thread per task, however many are running.
CanDequeueUnbounded(i) ==
    /\ pc[i] = "queued"
    /\ \A j \in Tasks : j < i => pc[j] # "queued"

\* A worker takes the oldest queued task; there are max_workers workers.
CanDequeue(i) ==
    /\ pc[i] = "queued"
    /\ \A j \in Tasks : j < i => pc[j] # "queued"
    /\ Cardinality(Busy) < MaxWorkers

Dequeue(i) ==
    /\ CanDequeue(i)
    /\ pc' = [pc EXCEPT ![i] = "started"]
    /\ UNCHANGED <<units, cache_dir, backend, writable, files, phase, fut, doc, results,
                   calls, answer>>

(***************************************************************************)
(* _generate_doc_for_unit: one task on a pool worker.                      *)
(***************************************************************************)
Done(i, outcome) ==
    /\ fut' = [fut EXCEPT ![i] = outcome]
    /\ pc' = [pc EXCEPT ![i] = "done"]

\* `if cache_key: self._save_to_cache(cache_key, doc)` as far as open(cache_file, "w"),
\* which truncates the file; an OSError lands in `except Exception as e`.
SaveOpen(i, d) ==
    LET cache_key == GetCacheKey(cache_dir, units[i]) IN
    IF cache_key = None
    THEN /\ Done(i, Return(GeneratedResult(units[i], d)))
         /\ UNCHANGED <<files, doc>>
    ELSE IF ~writable
    THEN /\ Done(i, Return(ErrorResult(units[i], "Permission denied")))
         /\ UNCHANGED <<files, doc>>
    ELSE /\ files' = [files EXCEPT ![CacheFile(cache_dir, cache_key)] = Empty]
         /\ doc' = [doc EXCEPT ![i] = d]
         /\ pc' = [pc EXCEPT ![i] = "write"]
         /\ UNCHANGED fut

\* Lines 241-273: the cache check, then the request to the backend.
Lookup(i) ==
    /\ pc[i] = "started"
    /\ LET code_unit == units[i]
           cache_key == GetCacheKey(cache_dir, code_unit)
           cached == GetCachedDoc(cache_dir, cache_key, files)
       IN IF cached.raised
          THEN /\ Done(i, Raise(cached.exc))
               /\ UNCHANGED <<files, doc, calls>>
          ELSE IF Truthy(cached.value)
          THEN /\ Done(i, Return(CachedResult(code_unit, cached.value)))
               /\ UNCHANGED <<files, doc, calls>>
          ELSE IF ChainFor(code_unit) # None
          THEN /\ pc' = [pc EXCEPT ![i] = "backend"]
               /\ calls' = [calls EXCEPT ![i] = @ + 1]
               /\ UNCHANGED <<files, doc, fut>>
          ELSE /\ SaveOpen(i, DefaultDoc(code_unit))
               /\ UNCHANGED calls
    /\ UNCHANGED <<units, cache_dir, backend, writable, phase, results, answer>>

\* chain.invoke returns or raises; on a text, the cache file is opened.
BackendReturn(i) ==
    /\ pc[i] = "backend"
    /\ \E a \in backend :
          /\ answer' = [answer EXCEPT ![i] = a]
          /\ IF a.ok
             THEN SaveOpen(i, a.text)
             ELSE /\ Done(i, Return(ErrorResult(units[i], a.error)))
                  /\ UNCHANGED <<files, doc>>
    /\ UNCHANGED <<units, cache_dir, backend, writable, phase, results, calls>>

\* json.dump({"documentation": documentation}, f) and the close of the file.
WriteCache(i) ==
    /\ pc[i] = "write"
    /\ files' = [files EXCEPT
                   ![CacheFile(cache_dir, GetCacheKey(cache_dir, units[i]))] = JsonDoc(doc[i])]
    /\ Done(i, Return(GeneratedResult(units[i], doc[i])))
    /\ doc' = [doc EXCEPT ![i] = None]
    /\ UNCHANGED <<units, cache_dir, backend, writable, phase, results, calls, answer>>

\* json.dump or the close of the file raises (OSError: the device is full)
\* after open(cache_file, "w") has truncated the entry; the exception lands in
\* `except Exception as e`.
WriteRaises(i) ==
    /\ pc[i] = "write"
    /\ Done(i, Return(ErrorResult(units[i], "No space left on device")))
    /\ doc' = [doc EXCEPT ![i] = None]
    /\ UNCHANGED <<units, cache_dir, backend, writable, files, phase, results, calls,
                   answer>>

(***************************************************************************)
(* generate_docs: collecting the futures.                                  *)
(***************************************************************************)
\* The futures taken from the last submitted to the first.
NextFutureReversed(rs) == Len(units) - Len(rs)

\* The future list(...) waits for next: the first one not yet collected.
NextFuture(rs) == Len(rs) + 1

\* list(executor.map(...)) takes the next future's result.
Collect ==
    /\ phase = "running"
    /\ Len(results) < Len(units)
    /\ pc[NextFuture(results)] = "done"
    /\ ~fut[NextFuture(results)].raised
    /\ results' = Append(results, fut[NextFuture(results)].value)
    /\ UNCHANGED <<units, cache_dir, backend, writable, files, phase, pc, fut, doc, calls,
                   answer>>

\* result() re-raises the task's exception; the iterator cancels what is queued.
Reraise ==
    /\ phase = "running"
    /\ Len(results) < Len(units)
    /\ pc[NextFuture(results)] = "done"
    /\ fut[NextFuture(results)].raised
    /\ phase' = "raising"
    /\ pc' = [i \in Tasks |-> IF pc[i] = "queued" THEN "cancelled" ELSE pc[i]]
    /\ UNCHANGED <<units, cache_dir, backend, writable, files, fut, doc, results, calls,
                   answer>>

\* The with block ends (shutdown(wait=True)) and generate_docs returns results.
ReturnResults ==
    /\ phase = "running"
    /\ Len(results) = Len(units)
    /\ Busy = {}
    /\ phase' = "returned"
    /\ UNCHANGED <<units, cache_dir, backend, writable, files, pc, fut, doc, results,
                   calls, answer>>

\* The with block ends (shutdown(wait=True)) and the exception leaves generate_docs.
Propagate ==
    /\ phase = "raising"
    /\ Busy = {}
    /\ phase' = "raised"
    /\ UNCHANGED <<units, cache_dir, backend, writable, files, pc, fut, doc, results,
                   calls, answer>>

Next ==
    \/ GenerateDocs /\ GeneratorStep
    \/ \E i \in Tasks : Dequeue(i) /\ GeneratorStep
    \/ \E i \in Tasks : Lookup(i) /\ GeneratorStep
    \/ \E i \in Tasks : BackendReturn(i) /\ GeneratorStep
    \/ \E i \in Tasks : WriteCache(i) /\ GeneratorStep
    \/ \E i \in Tasks : WriteRaises(i) /\ GeneratorStep
    \/ Collect /\ GeneratorStep
    \/ Reraise /\ GeneratorStep
    \/ ReturnResults /\ GeneratorStep
    \/ Propagate /\ GeneratorStep

Spec == Init /\ [][Next]_vars

\* With caching disabled no cache file is written and no cache read raises.
NextPool ==
    \/ GenerateDocs /\ GeneratorStep
    \/ \E i \in Tasks : Dequeue(i) /\ GeneratorStep
    \/ \E i \in Tasks : Lookup(i) /\ GeneratorStep
    \/ \E i \in Tasks : BackendReturn(i) /\ GeneratorStep
    \/ Collect /\ GeneratorStep
    \/ ReturnResults /\ GeneratorStep

SpecPool == InitPool /\ [][NextPool]_vars

(***************************************************************************)
(* parser.py: strings and paths.                                           *)
(*                                                                         *)
(* A str whose characters the code inspects is handled as the sequence of  *)
(* its characters.                                                         *)
(***************************************************************************)
\* The characters of the names that occur in the source directories and in
\* the units below.
Chars(s) ==
    CASE s = "a" -> <<"a">>
      [] s = ".h" -> <<".", "h">>
      [] s = "build" -> <<"b", "u", "i", "l", "d">>
      [] s = "builder" -> <<"b", "u", "i", "l", "d", "e", "r">>
      [] s = "b.py" -> <<"b", ".", "p", "y">>
      [] s = "c.py" -> <<"c", ".", "p", "y">>
      [] s = "h.py" -> <<"h", ".", "p", "y">>
      [] s = "m.py" -> <<"m", ".", "p", "y">>
      [] s = "x.py" -> <<"x", ".", "p", "y">>
      [] s = "y.py" -> <<"y", ".", "p", "y">>
      [] s = "z.py" -> <<"z", ".", "p", "y">>
      [] s = "notes.txt" -> <<"n", "o", "t", "e", "s", ".", "t", "x", "t">>
      [] s = "f" -> <<"f">>
      [] s = "A" -> <<"A">>
      [] s = "p" -> <<"p">>
      [] s = "q" -> <<"q">>
      [] s = "module" -> <<"m", "o", "d", "u", "l", "e">>
      [] s = "class" -> <<"c", "l", "a", "s", "s">>
      [] s = "function" -> <<"f", "u", "n", "c", "t", "i", "o", "n">>
      [] s = "method" -> <<"m", "e", "t", "h", "o", "d">>
      [] s = "Module" -> <<"M", "o", "d", "u", "l", "e">>
      [] s = "Class" -> <<"C", "l", "a", "s", "s">>
      [] s = "Function" -> <<"F", "u", "n", "c", "t", "i", "o", "n">>
      [] s = "Method" -> <<"M", "e", "t", "h", "o", "d">>
      [] s = "All" -> <<"A", "l", "l">>

\* The str made of the characters cs.
RECURSIVE Str(_)
Str(cs) == IF cs = <<>> THEN "" ELSE Head(cs) \o Str(Tail(cs))

\* The printable ASCII characters in code-point order, from 32 (the grave
\* accent, 96, by its number).
Ascii ==
    <<" ", "!", "\"", "#", "$", "%", "&", "'", "(", ")", "*", "+", ",", "-", ".", "/",
      "0", "1", "2", "3", "4", "5", "6", "7", "8", "9", ":", ";", "<", "=", ">", "?",
      "@", "A", "B", "C", "D", "E", "F", "G", "H", "I", "J", "K", "L", "M", "N", "O",
      "P", "Q", "R", "S", "T", "U", "V", "W", "X", "Y", "Z", "[", "\\", "]", "^", "_",
      "<96>", "a", "b", "c", "d", "e", "f", "g", "h", "i", "j", "k", "l", "m", "n", "o",
      "p", "q", "r", "s", "t", "u", "v", "w", "x", "y", "z", "{", "|", "}", "~">>

\* ord(c)
Ord(c) == 31 + CHOOSE i \in 1..Len(Ascii) : Ascii[i] = c

\* a < b for two str, as Python compares them: by code point, a proper prefix first.
StrLess(a, b) ==
    \E k \in 1..(Len(b)) :
        /\ k <= Len(a) + 1
        /\ \A i \in 1..(k - 1) : a[i] = b[i]
        /\ (k = Len(a) + 1 \/ Ord(a[k]) < Ord(b[k]))

\* str.startswith and str.endswith
StartsWith(cs, prefix) ==
    Len(cs) >= Len(prefix) /\ SubSeq(cs, 1, Len(prefix)) = prefix

EndsWith(cs, suffix) ==
    Len(cs) >= Len(suffix) /\ SubSeq(cs, Len(cs) - Len(suffix) + 1, Len(cs)) = suffix

\* str.rfind, counted from 1; 0 when c does not occur.
LastIndex(cs, c) ==
    IF \E i \in 1..Len(cs) : cs[i] = c
    THEN CHOOSE i \in 1..Len(cs) : cs[i] = c /\ \A j \in (i + 1)..Len(cs) : cs[j] # c
    ELSE 0

\* os.path.splitext(p)[0]: p without its extension; the leading dots of the
\* last component are not the start of an extension.
SplitextRoot(cs) ==
    LET sep == LastIndex(cs, "/")
        dot == LastIndex(cs, ".")
    IN IF dot > sep /\ \E k \in (sep + 1)..(dot - 1) : cs[k] # "."
       THEN SubSeq(cs, 1, dot - 1)
       ELSE cs

\* str.replace(old, new) for single characters.
Replace(cs, old, new) == [i \in 1..Len(cs) |-> IF cs[i] = old THEN new ELSE cs[i]]

\* The relative path of the file `file` in the directory `root`, both given by
\* their names below source_dir: os.path.relpath(os.path.join(root, file), source_dir)
RECURSIVE RelativePath(_)
RelativePath(names) ==
    IF Len(names) = 1 THEN Chars(names[1])
    ELSE Chars(Head(names)) \o <<"/">> \o RelativePath(Tail(names))

\* self.source_dir, an absolute path.
SourceDir == "/src"

\* file_path = os.path.join(root, file)
FilePath(names) == SourceDir \o "/" \o Str(RelativePath(names))

\* module_path = os.path.splitext(relative_path)[0].replace(os.path.sep, ".")
ModulePath(names) == Str(Replace(SplitextRoot(RelativePath(names)), "/", "."))

(***************************************************************************)
(* Source files: the statements a file is made of, its lines, and the tree *)
(* ast.parse builds from it (Python 3.8 and later: a node's lineno is the  *)
(* line of its def or class keyword and end_lineno is its last line).      *)
(***************************************************************************)
Stmt(stmt, name, decorators, body) ==
    [stmt |-> stmt, name |-> name, decorators |-> decorators, body |-> body]

\* def f(): pass, with or without one decorator line above it
Def(decorators) == Stmt("FunctionDef", "f", decorators, <<>>)
\* async def g(): pass
AsyncDef == Stmt("AsyncFunctionDef", "g", 0, <<>>)
\* x = 1
Assign == Stmt("Assign", "x", 0, <<>>)
\* def (          -- ast.parse raises SyntaxError
Invalid == Stmt("Invalid", "", 0, <<>>)
\* x = 1 + 1 + ... + 1 with 3000 terms -- ast.parse raises RecursionError
TooDeep == Stmt("TooDeep", "x", 0, <<>>)

\* Inside a class body: def m(): pass, async def n(): pass, and a nested
\* class Inner with one method z.
Method == Stmt("FunctionDef", "m", 0, <<>>)
AsyncMethod == Stmt("AsyncFunctionDef", "n", 0, <<>>)
InnerMethod == Stmt("FunctionDef", "z", 0, <<>>)
InnerClass == Stmt("ClassDef", "Inner", 0, <<InnerMethod>>)

\* Inside a function body: def h(): pass
NestedDef == Stmt("FunctionDef", "h", 0, <<>>)
\* A top-level function whose body defines h and a local class with one
\* method.
OuterDef ==
    Stmt("FunctionDef", "outer", 0,
         <<NestedDef, Stmt("ClassDef", "Local", 0, <<InnerMethod>>)>>)
\* if x: with a def and a class in its body
IfDef == Stmt("If", "", 0, <<Def(0), InnerClass>>)

ClassBodies ==
    {<<Method>>, <<AsyncMethod>>, <<Method, Method>>, <<AsyncMethod, Method>>,
     <<InnerClass>>, <<Method, InnerClass>>,
     <<Stmt("FunctionDef", "m", 0, <<NestedDef>>)>>}      \* m defines h in its body

ClassNames == {"A", "B"}

Class(name, body) == Stmt("ClassDef", name, 0, body)

TopStmts ==
    {Def(0), Def(1), AsyncDef, Assign, Invalid, TooDeep, OuterDef, IfDef}
        \cup {Class(n, b) : n \in ClassNames, b \in ClassBodies}

\* The str f.read() returns: the statements, and whether the last line ends
\* with a newline.
Source(stmts, final_newline) == [stmts |-> stmts, final_newline |-> final_newline]

\* Every file of at most MaxStmts top-level statements; the empty file is "".
Sources ==
    {Source(<<>>, FALSE)} \cup
    {Source(ss, nl) : ss \in UNION {[1..n -> TopStmts] : n \in 1..MaxStmts},
                      nl \in BOOLEAN}

\* Concatenation of the sequences ss[1], ..., ss[n]: what a loop that extends
\* or appends to one list builds.
RECURSIVE Flatten(_)
Flatten(ss) == IF ss = <<>> THEN <<>> ELSE Head(ss) \o Flatten(Tail(ss))

\* The lines of one statement, indented for its depth.
RECURSIVE StmtLines(_, _)
StmtLines(indent, s) ==
    LET Inner == [i \in 1..Len(s.body) |-> StmtLines(indent \o "    ", s.body[i])]
    IN CASE s.stmt = "FunctionDef" ->
              [i \in 1..s.decorators |-> indent \o "@dec"]
                  \o (IF s.body = <<>>
                      THEN <<indent \o "def " \o s.name \o "(): pass">>
                      ELSE <<indent \o "def " \o s.name \o "():">> \o Flatten(Inner))
         [] s.stmt = "AsyncFunctionDef" ->
              <<indent \o "async def " \o s.name \o "(): pass">>
         [] s.stmt = "ClassDef" ->
              <<indent \o "class " \o s.name \o ":">> \o Flatten(Inner)
         [] s.stmt = "If" -> <<indent \o "if x:">> \o Flatten(Inner)
         [] s.stmt = "Assign" -> <<indent \o "x = 1">>
         [] s.stmt = "Invalid" -> <<indent \o "def (">>
         [] s.stmt = "TooDeep" -> <<indent \o "x = 1 + 1 + ... + 1">>

\* source.splitlines()
Splitlines(source) ==
    Flatten([i \in 1..Len(source.stmts) |-> StmtLines("", source.stmts[i])])

\* "\n".join(lines)
RECURSIVE JoinLines(_)
JoinLines(lines) ==
    IF lines = <<>> THEN ""
    ELSE IF Len(lines) = 1 THEN lines[1]
    ELSE Head(lines) \o "\n" \o JoinLines(Tail(lines))

\* The source as one str.
SourceText(source) ==
    JoinLines(Splitlines(source)) \o (IF source.final_newline THEN "\n" ELSE "")

\* An ast node.
Node(node, name, lineno, end_lineno, body) ==
    [node |-> node, name |-> name, lineno |-> lineno, end_lineno |-> end_lineno,
     body |-> body]

\* The nodes of the statements ss, the first of which starts at line `first`.
RECURSIVE Nodes(_, _)
Nodes(ss, first) ==
    IF ss = <<>> THEN <<>>
    ELSE LET s == Head(ss)
             n == Len(StmtLines("", s))
         IN <<Node(s.stmt, s.name, first + s.decorators, first + n - 1,
                   Nodes(s.body, first + s.decorators + 1))>>
                \o Nodes(Tail(ss), first + n)

RECURSIVE Contains(_, _)
Contains(ss, kind) ==
    \E i \in 1..Len(ss) : ss[i].stmt = kind \/ Contains(ss[i].body, kind)

\* ast.parse(source): the Module node, or the exception it raises.
AstParse(source) ==
    IF Contains(source.stmts, "Invalid") THEN Raise("SyntaxError")
    ELSE IF Contains(source.stmts, "TooDeep") THEN Raise("RecursionError")
    ELSE Return(Node("Module", None, 0, 0, Nodes(source.stmts, 1)))

\* ast.walk without the node itself: the children and all nodes below them.
RECURSIVE IterAllNodes(_)
IterAllNodes(node) ==
    Flatten([i \in 1..Len(node.body) |-> <<node.body[i]>> \o IterAllNodes(node.body[i])])

\* ast.iter_child_nodes
IterChildNodes(node) == node.body

\* ast.get_docstring: none of the statements above is a documentation string.
GetDocstring(node) == None

(***************************************************************************)
(* CodeParser._parse_file and the extractors.                              *)
(***************************************************************************)
\* What a path under source_dir may hold.
TextFile(source) == [kind |-> "text", source |-> source]
UndecodableFile == [kind |-> "undecodable"]     \* bytes that are not UTF-8
UnopenableFile == [kind |-> "unopenable"]       \* open() is refused

\* with open(file_path, "r", encoding="utf-8") as f: source = f.read()
ReadSource(content) ==
    CASE content.kind = "text" -> Return(content.source)
      [] content.kind = "undecodable" -> Raise("UnicodeDecodeError")
      [] content.kind = "unopenable" -> Raise("PermissionError")

\* _extract_function
ExtractFunction(node, source, file_path, module_path, parent) ==
    LET source_lines == Splitlines(source)
        line_start == node.lineno
        line_end == node.end_lineno
    IN CodeUnit("function", node.name,
                JoinLines(SubSeq(source_lines, line_start, line_end)),
                GetDocstring(node), file_path, module_path, line_start, line_end,
                parent)

\* _extract_class
ExtractClass(node, source, file_path, module_path) ==
    LET source_lines == Splitlines(source)
        line_start == node.lineno
        line_end == node.end_lineno
    IN CodeUnit("class", node.name,
                JoinLines(SubSeq(source_lines, line_start, line_end)),
                GetDocstring(node), file_path, module_path, line_start, line_end,
                None)

\* isinstance(node, ast.FunctionDef)
IsFunctionDef(node) == node.node = "FunctionDef"

\* The inner loop without parent=node.name.
MethodUnitsOrphan(node, source, file_path, module_path) ==
    LET Unit(class_node) ==
            IF IsFunctionDef(class_node)
            THEN <<[ExtractFunction(class_node, source, file_path, module_path,
                                    None) EXCEPT !.type = "method"]>>
            ELSE <<>>
    IN Flatten([i \in 1..Len(IterChildNodes(node)) |-> Unit(IterChildNodes(node)[i])])

\* The units of the methods of the class `node`: the inner loop of _parse_file.
MethodUnits(node, source, file_path, module_path) ==
    LET Unit(class_node) ==
            IF IsFunctionDef(class_node)
            THEN <<[ExtractFunction(class_node, source, file_path, module_path,
                                    node.name) EXCEPT !.type = "method"]>>
            ELSE <<>>
    IN Flatten([i \in 1..Len(IterChildNodes(node)) |-> Unit(IterChildNodes(node)[i])])

\* The outer loop appending a class after its methods.
NodeUnitsMethodsFirst(node, source, file_path, module_path) ==
    IF IsFunctionDef(node)
    THEN <<ExtractFunction(node, source, file_path, module_path, None)>>
    ELSE IF node.node = "ClassDef"
    THEN MethodUnits(node, source, file_path, module_path)
             \o <<ExtractClass(node, source, file_path, module_path)>>
    ELSE <<>>

\* The units of one top-level node: the body of the outer loop of _parse_file.
NodeUnits(node, source, file_path, module_path) ==
    IF IsFunctionDef(node)
    THEN <<ExtractFunction(node, source, file_path, module_path, None)>>
    ELSE IF node.node = "ClassDef"
    THEN <<ExtractClass(node, source, file_path, module_path)>>
             \o MethodUnits(node, source, file_path, module_path)
    ELSE <<>>

\* The module unit of a file.
ModuleUnit(tree_, source, file_path, module_path) ==
    CodeUnit("module", module_path, SourceText(source), GetDocstring(tree_),
             file_path, module_path, 1, Len(Splitlines(source)), None)

\* _parse_file: the list of units, or the exception that leaves it.
ParseFile(content, file_path, module_path) ==
    LET read == ReadSource(content)
    IN IF read.raised THEN read
       ELSE LET source == read.value
                parsed == AstParse(source)
                Units(node) == NodeUnits(node, source, file_path, module_path)
            IN IF parsed.raised
               THEN IF parsed.exc = "SyntaxError" THEN Return(<<>>) ELSE parsed
               ELSE Return(<<ModuleUnit(parsed.value, source, file_path, module_path)>>
                               \o Flatten([i \in 1..Len(IterChildNodes(parsed.value)) |->
                                              Units(IterChildNodes(parsed.value)[i])]))

(***************************************************************************)
(* CodeParser.parse: os.walk over source_dir.                              *)
(***************************************************************************)
\* Every order in which a directory scan may list the names in S.
Orders(S) ==
    {s \in [1..Cardinality(S) -> S] : \A i, j \in 1..Cardinality(S) : s[i] = s[j] => i = j}

\* The filter without the test for hidden directories.
KeptUnlessNamed(d, excluded) ==
    \A i \in 1..Len(excluded) : excluded[i] # d

\* d not in self.exclude_dirs and not d.startswith(".")
Kept(d, excluded) ==
    /\ \A i \in 1..Len(excluded) : excluded[i] # d
    /\ ~StartsWith(Chars(d), <<".">>)

\* dirs[:] = [d for d in dirs if ...]
FilterDirs(dirs, excluded) ==
    LET Keep(d) == Kept(d, excluded) IN SelectSeq(dirs, Keep)

\* file.endswith(".py")
IsPythonFile(file) == EndsWith(Chars(file), <<".", "p", "y">>)

\* parse() is called.
Parse ==
    /\ parse_state = "idle"
    /\ parse_state' = "walking"
    /\ walk_stack' = <<<<>>>>
    /\ code_units' = <<>>
    /\ UNCHANGED <<tree, contents, exclude_dirs, parse_exc, walk_root, walk_files, visited>>
    /\ ParserStep

\* os.walk yields the next (root, dirs, files): the loop over the files of the
\* triple before has ended, the directory is scanned in the order the file
\* system gives, and the directories kept in `dirs` are walked next, in order.
WalkNext ==
    /\ parse_state = "walking"
    /\ walk_files = <<>>
    /\ walk_stack # <<>>
    /\ LET root == Head(walk_stack)
       IN \E dirs \in Orders(tree[root].dirs), files_ \in Orders(tree[root].files) :
            /\ walk_root' = root
            /\ walk_files' = files_
            /\ walk_stack' =
                  [i \in 1..Len(FilterDirs(dirs, exclude_dirs)) |->
                      Append(root, FilterDirs(dirs, exclude_dirs)[i])]
                      \o Tail(walk_stack)
    /\ UNCHANGED <<tree, contents, exclude_dirs, parse_state, parse_exc, visited, code_units>>
    /\ ParserStep

\* One pass of `for file in files`.
VisitFile ==
    /\ parse_state = "walking"
    /\ walk_files # <<>>
    /\ LET file == Head(walk_files)
           names == Append(walk_root, file)
           file_units == ParseFile(contents[names], FilePath(names), ModulePath(names))
       IN IF ~IsPythonFile(file)
          THEN /\ walk_files' = Tail(walk_files)
               /\ UNCHANGED <<parse_state, parse_exc, visited, code_units>>
          ELSE /\ visited' = Append(visited, names)
               /\ IF file_units.raised
                  THEN /\ parse_state' = "raised"
                       /\ parse_exc' = file_units.exc
                       /\ UNCHANGED <<walk_files, code_units>>
                  ELSE /\ code_units' = code_units \o file_units.value
                       /\ walk_files' = Tail(walk_files)
                       /\ UNCHANGED <<parse_state, parse_exc>>
    /\ UNCHANGED <<tree, contents, exclude_dirs, walk_stack, walk_root>>
    /\ ParserStep

\* os.walk is exhausted: return code_units.
ParseReturn ==
    /\ parse_state = "walking"
    /\ walk_files = <<>>
    /\ walk_stack = <<>>
    /\ parse_state' = "returned"
    /\ UNCHANGED <<tree, contents, exclude_dirs, parse_exc, walk_stack, walk_root,
                   walk_files, visited, code_units>>
    /\ ParserStep

NextParse ==
    \/ Parse
    \/ WalkNext
    \/ VisitFile
    \/ ParseReturn

\* A generator that is never run.
GeneratorAtRest ==
    /\ units = <<>>
    /\ cache_dir = None
    /\ backend = {}
    /\ writable = TRUE
    /\ files = NoFiles
    /\ InitRun

InitWalkState ==
    /\ parse_state = "idle"
    /\ parse_exc = None
    /\ walk_stack = <<>>
    /\ walk_root = <<>>
    /\ walk_files = <<>>
    /\ visited = <<>>
    /\ code_units = <<>>

\* A source directory that holds the one file m.py, with any content.
InitFile ==
    /\ tree = [d \in {<<>>} |-> [dirs |-> {}, files |-> {"m.py"}]]
    /\ contents \in {[p \in {<<"m.py">>} |-> TextFile(s)] : s \in Sources}
    /\ exclude_dirs = <<>>
    /\ InitWalkState
    /\ GeneratorAtRest
    /\ RendererAtRest
    /\ ConfigAtRest

SpecFile == InitFile /\ [][NextParse]_vars

\* A source directory with nested, hidden and build directories:
\*   b.py  notes.txt  a/c.py  a/build/x.py  a/builder/z.py  build/y.py  .h/h.py
WalkTree ==
    (<<>> :> [dirs |-> {"a", "build", ".h"}, files |-> {"b.py", "notes.txt"}])
    @@ (<<"a">> :> [dirs |-> {"build", "builder"}, files |-> {"c.py"}])
    @@ (<<"a", "build">> :> [dirs |-> {}, files |-> {"x.py"}])
    @@ (<<"a", "builder">> :> [dirs |-> {}, files |-> {"z.py"}])
    @@ (<<"build">> :> [dirs |-> {}, files |-> {"y.py"}])
    @@ (<<".h">> :> [dirs |-> {}, files |-> {"h.py"}])

\* The paths of the files of a tree.
FilesOf(t) == UNION {{Append(d, f) : f \in t[d].files} : d \in DOMAIN t}

\* A well-formed file: one function.
GoodFile == TextFile(Source(<<Def(0)>>, TRUE))

\* What b.py, a/c.py and a/builder/z.py may hold.
FileChoices ==
    {GoodFile, TextFile(Source(<<Invalid>>, TRUE)), TextFile(Source(<<TooDeep>>, TRUE)),
     UndecodableFile, UnopenableFile}

VariedFiles == {<<"b.py">>, <<"a", "c.py">>, <<"a", "builder", "z.py">>}

WalkContents ==
    {[p \in FilesOf(WalkTree) |->
        IF p \in VariedFiles THEN c[p]
        ELSE IF p = <<"notes.txt">> THEN UndecodableFile
        ELSE GoodFile] : c \in [VariedFiles -> FileChoices]}

\* exclude_dirs: nothing, a directory name, a path.
ExcludeChoices == {<<>>, <<"build">>, <<"a/build">>}

InitWalk ==
    /\ tree = WalkTree
    /\ contents \in WalkContents
    /\ exclude_dirs \in ExcludeChoices
    /\ InitWalkState
    /\ GeneratorAtRest
    /\ RendererAtRest
    /\ ConfigAtRest

SpecWalk == InitWalk /\ [][NextParse]_vars

(***************************************************************************)
(* renderer.py: DocumentationRenderer._group_docs.                         *)
(***************************************************************************)
\* str.capitalize(): the first character in upper case, the rest in lower case.
Upper(c) == IF Ord(c) \in 97..122 THEN Ascii[Ord(c) - 32 - 31] ELSE c
Lower(c) == IF Ord(c) \in 65..90 THEN Ascii[Ord(c) + 32 - 31] ELSE c
Capitalize(cs) ==
    [i \in 1..Len(cs) |-> IF i = 1 THEN Upper(cs[i]) ELSE Lower(cs[i])]

\* c matches [\w\-\.]
IsSafeChar(c) ==
    \/ Ord(c) \in 48..57
    \/ Ord(c) \in 65..90
    \/ Ord(c) \in 97..122
    \/ c \in {"_", "-", "."}

\* _get_safe_filename: re.sub(r'[^\w\-\.]', '_', name)
GetSafeFilename(name) ==
    Str([i \in 1..Len(Chars(name)) |->
            IF IsSafeChar(Chars(name)[i]) THEN Chars(name)[i] ELSE "_"])

\* self.output_dir
OutputDir == "docs"

\* file_name of a unit's page
FileName(code_unit, format) ==
    IF format = "html" THEN GetSafeFilename(code_unit.name) \o ".html"
    ELSE GetSafeFilename(code_unit.name) \o ".md"

\* The page path kept in the documentation field of the dictionary.
AnnotateInPlace(d, format) ==
    [d EXCEPT !.documentation = FileName(d.unit, format)]

\* doc["file_path"] = ...; doc["page_path"] = ...: the dictionary with the two
\* keys set.
Annotate(d, format) ==
    [k \in DOMAIN d \cup {"file_path", "page_path"} |->
        IF k = "file_path" THEN OutputDir \o "/" \o FileName(d.unit, format)
        ELSE IF k = "page_path" THEN FileName(d.unit, format)
        ELSE d[k]]

\* group_key, as its characters
GroupKey(code_unit, mode) ==
    IF mode = "type" THEN Capitalize(Chars(code_unit.type))
    ELSE IF mode = "module" THEN Chars(code_unit.module_path)
    ELSE <<"A", "l", "l">>

\* A result that grouping leaves out of every group, in all modes.
SkippedModules(code_unit, mode) == code_unit.type = "module"

\* if self.mode == "module" and code_unit.type == "module": continue
Skipped(code_unit, mode) ==
    mode = "module" /\ code_unit.type = "module"

\* list.sort / sorted of s by the str keys[i] of each s[i]: ascending, and
\* stable, so elements with equal keys keep the order they had.
StableSort(s, keys) ==
    LET Before(j, i) == StrLess(keys[j], keys[i]) \/ (keys[j] = keys[i] /\ j < i)
        Rank(i) == 1 + Cardinality({j \in 1..Len(s) : Before(j, i)})
    IN [r \in 1..Len(s) |-> s[CHOOSE i \in 1..Len(s) : Rank(i) = r]]

\* A group left in the order its results were appended.
SortGroupNone(group) == group

\* group.sort(key=lambda d: d["unit"].name)
SortGroup(group) ==
    StableSort(group, [i \in 1..Len(group) |-> Chars(group[i].unit.name)])

\* The keys of `grouped` in the order their first result was appended.
RECURSIVE KeysOf(_, _)
KeysOf(ds, mode) ==
    IF ds = <<>> THEN <<>>
    ELSE LET before == KeysOf(SubSeq(ds, 1, Len(ds) - 1), mode)
             key == GroupKey(ds[Len(ds)].unit, mode)
         IN IF \E i \in 1..Len(before) : before[i] = key THEN before
            ELSE Append(before, key)

\* _group_docs: the returned dict as the sequence of its items.
GroupDocsOf(ds, mode, format) ==
    LET annotated == [i \in 1..Len(ds) |-> Annotate(ds[i], format)]
        NotSkipped(d) == ~Skipped(d.unit, mode)
        kept == SelectSeq(annotated, NotSkipped)
        keys == StableSort(KeysOf(kept, mode), KeysOf(kept, mode))
        Group(key) ==
            LET HasKey(d) == GroupKey(d.unit, mode) = key
            IN SortGroup(SelectSeq(kept, HasKey))
    IN [i \in 1..Len(keys) |-> [key |-> Str(keys[i]), docs |-> Group(keys[i])]]

\* _markdown_to_html(content), and the HTML wrapper template rendered with
\* the title and the converted content.
MarkdownToHtml(content) == [html_of |-> content]
HtmlWrapper(title, content) == [kind |-> "html", title |-> title, content |-> content]

\* What _render_doc_page writes to the page of a result.
PageOf(d, format) ==
    IF format = "html"
    THEN HtmlWrapper(d.unit.name, MarkdownToHtml(d.documentation))
    ELSE [kind |-> "markdown", text |-> d.documentation]

\* index_path
IndexPath(format) ==
    IF format = "html" THEN OutputDir \o "/" \o "index.html"
    ELSE OutputDir \o "/" \o "index.md"

\* The index template rendered: per group its name and, per result, the
\* name and the link of the unit (and the parent of a method).
IndexOf(groups, format) ==
    LET Entry(d) == [name |-> d.unit.name, link |-> d.page_path,
                     parent |-> IF d.unit.type = "method" THEN d.unit.parent ELSE None]
        markdown == [g \in 1..Len(groups) |->
                        [group_name |-> groups[g].key,
                         entries |-> [k \in 1..Len(groups[g].docs) |->
                                         Entry(groups[g].docs[k])]]]
    IN IF format = "html"
       THEN HtmlWrapper("API Documentation", MarkdownToHtml(markdown))
       ELSE [kind |-> "markdown", text |-> markdown]

\* The units of the results given to the renderer: module p with a function
\* f and a class A with a method f, module q with a function f.
uP == CodeUnit("module", "p", "def f(): pass\nclass A:\n    def f(): pass\n", None,
               "/src/p.py", "p", 1, 3, None)
uPf == CodeUnit("function", "f", "def f(): pass", None, "/src/p.py", "p", 1, 1, None)
uPA == CodeUnit("class", "A", "class A:\n    def f(): pass", None, "/src/p.py", "p", 2, 3, None)
uPAf == CodeUnit("method", "f", "    def f(): pass", None, "/src/p.py", "p", 3, 3, "A")
uQf == CodeUnit("function", "f", "def f(): pass", None, "/src/q.py", "q", 1, 1, None)

RenderedUnits == {uP, uPf, uPA, uPAf, uQf}

\* The text generated for a unit: every unit has its own.
DocOf(u) == "# " \o u.name \o ": " \o u.type \o " of " \o u.module_path

\* The files render may write, none of them there before.
PagePaths ==
    {OutputDir \o "/" \o FileName(u, f) : u \in RenderedUnits, f \in {"markdown", "html"}}
        \cup {IndexPath(f) : f \in {"markdown", "html"}}

\* Every list of at most MaxDocs results of distinct units.
DocLists ==
    {[i \in 1..Len(us) |-> GeneratedResult(us[i], DocOf(us[i]))] :
        us \in UNION {{s \in [1..n -> RenderedUnits] :
                          \A i, j \in 1..n : s[i] = s[j] => i = j} : n \in 0..MaxDocs}}

InitRenderer ==
    /\ docs \in DocLists
    /\ group_by \in {"module", "type", "flat"}
    /\ doc_format \in {"markdown", "html"}
    /\ grouped = <<>>
    /\ render_state = "idle"
    /\ rendered = 0
    /\ pages = [p \in PagePaths |-> Absent]
    /\ GeneratorAtRest
    /\ ParserAtRest
    /\ ConfigAtRest

\* grouped_docs = self._group_docs(docs)
GroupDocs ==
    /\ render_state = "idle"
    /\ render_state' = "grouped"
    /\ grouped' = GroupDocsOf(docs, group_by, doc_format)
    /\ docs' = [i \in 1..Len(docs) |-> Annotate(docs[i], doc_format)]
    /\ UNCHANGED <<group_by, doc_format, rendered, pages>>
    /\ UNCHANGED <<generator_vars, parser_vars, config_vars>>

\* for doc in docs: self._render_doc_page(doc) -- one pass of the loop;
\* open(doc["file_path"], "w") replaces whatever the file held.
RenderDocPage ==
    /\ render_state = "grouped"
    /\ rendered < Len(docs)
    /\ rendered' = rendered + 1
    /\ pages' = [pages EXCEPT ![docs[rendered + 1].file_path] =
                                  PageOf(docs[rendered + 1], doc_format)]
    /\ UNCHANGED <<docs, group_by, doc_format, grouped, render_state>>
    /\ UNCHANGED <<generator_vars, parser_vars, config_vars>>

\* index_path = self._render_index(grouped_docs); return index_path
RenderIndex ==
    /\ render_state = "grouped"
    /\ rendered = Len(docs)
    /\ render_state' = "rendered"
    /\ pages' = [pages EXCEPT ![IndexPath(doc_format)] = IndexOf(grouped, doc_format)]
    /\ UNCHANGED <<docs, group_by, doc_format, grouped, rendered>>
    /\ UNCHANGED <<generator_vars, parser_vars, config_vars>>

NextRenderer ==
    \/ GroupDocs
    \/ RenderDocPage
    \/ RenderIndex

SpecRenderer == InitRenderer /\ [][NextRenderer]_vars

(***************************************************************************)
(* config.py: load_config and _merge_configs.                              *)
(***************************************************************************)
\* _merge_configs descends: value is a dict, key is in base, base[key] is a
\* dict (here: one of the section dictionaries).
Descends(base, override, key) ==
    /\ override[key].kind = "dict"
    /\ key \in DOMAIN base
    /\ base[key].kind = "ref"

\* _merge_configs(config, user_config): the dictionary `base` afterwards.
MergedConfig(base, override) ==
    [k \in DOMAIN base \cup DOMAIN override |->
        IF k \in DOMAIN override /\ ~Descends(base, override, k) THEN override[k]
        ELSE base[k]]

\* _merge_configs(config, user_config): the section dictionaries afterwards;
\* the recursive call writes into the object base[key] refers to, whose
\* values are texts: base[key] = value for every key of the override.
MergedSections(base, heap, override) ==
    [id \in DOMAIN heap |->
        IF \E k \in DOMAIN override : Descends(base, override, k) /\ base[k].id = id
        THEN LET k == CHOOSE k \in DOMAIN override :
                          Descends(base, override, k) /\ base[k].id = id
                 items == override[k].items
             IN [key \in DOMAIN heap[id] \cup DOMAIN items |->
                    IF key \in DOMAIN items THEN items[key] ELSE heap[id][key]]
        ELSE heap[id]]

\* config = DEFAULT_CONFIG.copy(): a new dictionary with the same values,
\* the section dictionaries themselves, not copies of them.
ShallowCopy(d) == [k \in DOMAIN d |-> d[k]]

\* One call of load_config.
LoadConfig ==
    /\ loads < MaxLoads
    /\ loads' = loads + 1
    /\ \E f \in ConfigFiles :
          /\ config_file' = f
          /\ LET copy == ShallowCopy(DefaultConfig)
             IN CASE f.kind = "none" ->
                       /\ config' = copy
                       /\ load_state' = "returned"
                       /\ load_exc' = None
                       /\ UNCHANGED sections
                  [] f.kind = "unsupported" ->
                       /\ load_state' = "raised"
                       /\ load_exc' = "ValueError"
                       /\ config' = <<>>
                       /\ UNCHANGED sections
                  [] f.kind = "parsed_none" ->
                       /\ load_state' = "raised"
                       /\ load_exc' = "AttributeError"
                       /\ config' = <<>>
                       /\ UNCHANGED sections
                  [] f.kind = "mapping" ->
                       /\ config' = MergedConfig(copy, f.user_config)
                       /\ sections' = MergedSections(copy, sections, f.user_config)
                       /\ load_state' = "returned"
                       /\ load_exc' = None
    /\ UNCHANGED <<generator_vars, parser_vars, renderer_vars>>

InitConfig ==
    /\ sections = DefaultSections
    /\ config = <<>>
    /\ config_file = NoFile
    /\ load_state = "idle"
    /\ load_exc = None
    /\ loads = 0
    /\ GeneratorAtRest
    /\ ParserAtRest
    /\ RendererAtRest

NextConfig == LoadConfig

SpecConfig == InitConfig /\ [][NextConfig]_vars

(***************************************************************************)
(* Vocabulary of the properties.                                           *)
(***************************************************************************)
\* GenerationResult.status of a result dictionary.
Status(r) ==
    IF "error" \in DOMAIN r THEN "failed"
    ELSE IF r.from_cache THEN "cached" ELSE "ok"

\* The fields the fingerprint is specified over.
Triple(u) == <<u.type, u.name, u.source>>

\* The cache file of task i's unit (caching enabled).
EntryPath(i) == CacheFile(cache_dir, GetCacheKey(cache_dir, units[i]))

\* This step is task i's cache check.
LookupStep(i) == pc[i] = "started" /\ pc'[i] # "started"

\* generate_docs has ended, by return or by raise.
Ended == phase \in {"returned", "raised"}

\* The backend call of task i failed.
BackendFailed(i) == ~answer[i].ok /\ answer[i].error # None

\* Task i ended with a generated (status ok) result.
GeneratedOk(i) ==
    /\ pc[i] = "done"
    /\ ~fut[i].raised
    /\ Status(fut[i].value) = "ok"

\* The kinds of entry content that are corrupt or unreadable.
CorruptKinds == {"invalid_json", "not_object", "no_field", "undecodable", "unreadable"}

\* How many elements of the sequence s are equal to x.
Count(s, x) == Cardinality({i \in 1..Len(s) : s[i] = x})

(***************************************************************************)
(* C1: every run of generate_docs ends by returning a list that holds      *)
(* exactly one result per input element: as many results as units, and     *)
(* each unit the origin of as many results as it occurs in the input.      *)
(***************************************************************************)
C1_OneResultPerUnit ==
    Ended =>
        /\ phase = "returned"
        /\ Len(results) = Len(units)
        /\ \A u \in Universe :
              Count([i \in 1..Len(results) |-> results[i].unit], u) = Count(units, u)

(***************************************************************************)
(* C2: when the backend failed for exactly one unit of the run, the run    *)
(* returns (the failure is not raised out of generate_docs) one result per *)
(* unit, the result of that unit is failed and no other result is.         *)
(***************************************************************************)
C2_PartialFailureIsolation ==
    (Ended /\ Cardinality({i \in Tasks : BackendFailed(i)}) = 1) =>
        /\ phase = "returned"
        /\ Len(results) = Len(units)
        /\ \A i \in Tasks : Status(results[i]) = "failed" <=> BackendFailed(i)

(***************************************************************************)
(* C3: cache idempotence.  When the same unit is generated twice in        *)
(* sequence with caching on a writable cache directory, and the first call *)
(* ended ok with text t, the second call's cache check ends it at once     *)
(* with status cached and the same text t, whatever t is.                  *)
(***************************************************************************)
C3_CacheIdempotence ==
    [][\A i, j \in Tasks :
          (/\ Len(units) = 2
           /\ i # j
           /\ units[i] = units[j]
           /\ cache_dir # None
           /\ writable
           /\ GeneratedOk(i)
           /\ LookupStep(j))
          => /\ pc'[j] = "done"
             /\ fut'[j] = Return(CachedResult(units[j], fut[i].value.documentation))]_vars

(***************************************************************************)
(* C4: a cache check that finds a readable entry, whatever text it stores, *)
(* ends the task with status cached and exactly the stored text, and the   *)
(* backend is not invoked for that unit.                                   *)
(***************************************************************************)
C4_HitReturnsStoredText ==
    [][\A i \in Tasks :
          (/\ cache_dir # None
           /\ LookupStep(i)
           /\ files[EntryPath(i)].kind = "json_doc")
          => /\ pc'[i] = "done"
             /\ fut'[i] = Return(CachedResult(units[i], files[EntryPath(i)].documentation))
             /\ calls'[i] = 0]_vars

(***************************************************************************)
(* C5: units that agree on (kind, name, source_text) have the same cache   *)
(* key wherever they are declared, and once one of them has been generated *)
(* successfully the cache check of the other is a hit that returns the     *)
(* first one's text.                                                       *)
(***************************************************************************)
C5_KeyIgnoresLocation ==
    [][\A i, j \in Tasks :
          (i # j /\ Triple(units[i]) = Triple(units[j]) /\ cache_dir # None)
          => /\ GetCacheKey(cache_dir, units[i]) = GetCacheKey(cache_dir, units[j])
             /\ (/\ Len(units) = 2
                 /\ units[i].file_path # units[j].file_path
                 /\ writable
                 /\ GeneratedOk(i)
                 /\ LookupStep(j))
                => /\ pc'[j] = "done"
                   /\ fut'[j] =
                        Return(CachedResult(units[j], fut[i].value.documentation))]_vars

(***************************************************************************)
(* C6: the string that is hashed is an injective encoding: two units of a  *)
(* run with distinct (kind, name, source_text) have distinct hash inputs.  *)
(***************************************************************************)
C6_HashInputInjective ==
    \A i, j \in Tasks :
        (cache_dir # None /\ Triple(units[i]) # Triple(units[j]))
        => HashInput(units[i]) # HashInput(units[j])

(***************************************************************************)
(* C7: a corrupt or unreadable cache entry is a cache miss: a cache check  *)
(* that finds one goes on to invoke the backend, and no run of             *)
(* generate_docs ends by raising.                                          *)
(***************************************************************************)
C7_CorruptEntryIsMiss ==
    [][/\ \A i \in Tasks :
             (/\ cache_dir # None
              /\ LookupStep(i)
              /\ files[EntryPath(i)].kind \in CorruptKinds)
             => /\ pc'[i] = "backend"
                /\ calls'[i] = calls[i] + 1
       /\ phase' \notin {"raising", "raised"}]_vars

(***************************************************************************)
(* C8: at most 10 backend requests are in flight at any time, at most 10   *)
(* tasks hold a worker, and a unit that has not got a worker yet is        *)
(* waiting in the queue while all the workers are taken.                   *)
(***************************************************************************)
C8_BoundedInFlight ==
    /\ Cardinality(InFlight) <= 10
    /\ Cardinality(Busy) <= 10
    /\ \A i \in Tasks : pc[i] \in {"started", "backend"} => \A j \in 1..i : pc[j] # "queued"

\* The pool is saturated with 10 requests in flight and the 11th unit queued.
C8_Witness ==
    /\ Cardinality(InFlight) = 10
    /\ \E i \in Tasks : pc[i] = "queued"

(***************************************************************************)
(* C9: cache writes are atomic for readers: a cache check made while       *)
(* another task is inside _save_to_cache for the same key never finds the  *)
(* entry file empty.                                                       *)
(***************************************************************************)
C9_AtomicCacheWrite ==
    [][\A i, k \in Tasks :
          (/\ cache_dir # None
           /\ LookupStep(i)
           /\ pc[k] = "write"
           /\ EntryPath(k) = EntryPath(i))
          => files[EntryPath(i)].kind # "empty"]_vars

(***************************************************************************)
(* C10: the backend is invoked at most once per unit; a unit whose backend *)
(* call failed gets a failed result whose error is the failure's           *)
(* description; and a result carries an error only if the backend call of  *)
(* its unit failed.                                                        *)
(***************************************************************************)
C10_ErrorIffBackendFailed ==
    \A i \in Tasks :
        /\ calls[i] <= 1
        /\ (pc[i] = "done" /\ ~fut[i].raised) =>
              /\ BackendFailed(i) =>
                    /\ Status(fut[i].value) = "failed"
                    /\ fut[i].value.error = answer[i].error
              /\ "error" \in DOMAIN fut[i].value => BackendFailed(i)

(***************************************************************************)
(* Vocabulary of the parser properties.                                    *)
(***************************************************************************)
\* The source of m.py, the one file of the single-file source directory.
TheSource == contents[<<"m.py">>].source

\* parse has returned the units of m.py, a file ast.parse accepts.
ParsedValidFile ==
    /\ parse_state = "returned"
    /\ ~AstParse(TheSource).raised

\* Definitions with def or async def.
CallableStmts == {"FunctionDef", "AsyncFunctionDef"}

\* The positions of the statements of ss whose kind is in `kinds`.
Positions(ss, kinds) == {i \in 1..Len(ss) : ss[i].stmt \in kinds}

\* The callables declared directly inside the top-level classes of ss.
ClassCallables(ss) ==
    {<<i, j>> \in (1..Len(ss)) \X (1..3) :
        /\ ss[i].stmt = "ClassDef"
        /\ j \in Positions(ss[i].body, CallableStmts)}

\* The indices of the units of us whose type is in `types`.
UnitsOfType(us, types) == {k \in 1..Len(us) : us[k].type \in types}

\* The index of the last unit before k that is not a method; 0 if none.
Owner(us, k) ==
    IF \E c \in 1..(k - 1) : us[c].type # "method"
    THEN CHOOSE c \in 1..(k - 1) :
            us[c].type # "method" /\ \A d \in (c + 1)..(k - 1) : us[d].type = "method"
    ELSE 0

\* The file lies under a directory that exclude_dirs names or that is hidden.
UnderExcluded(names) ==
    \E k \in 1..(Len(names) - 1) :
        \/ \E i \in 1..Len(exclude_dirs) : exclude_dirs[i] = names[k]
        \/ Head(Chars(names[k])) = "."

\* The .py files of the tree that no excluded or hidden directory contains.
ExpectedFiles ==
    {p \in FilesOf(tree) : IsPythonFile(p[Len(p)]) /\ ~UnderExcluded(p)}

\* The files handed to _parse_file so far.
Visited == {visited[i] : i \in 1..Len(visited)}

\* ast.parse does not accept the content of the file p.
Malformed(p) == contents[p].kind = "text" /\ AstParse(contents[p].source).raised

\* The file p cannot be opened or decoded.
UnreadableFile(p) == contents[p].kind \in {"undecodable", "unopenable"}

\* The units of code_units that come from the file p.
UnitsFrom(p) == SelectSeq(code_units, LAMBDA u : u.file_path = FilePath(p))

(***************************************************************************)
(* C11: for a syntactically valid file, _parse_file emits 1 unit for the   *)
(* module, plus one per top-level class, plus one per top-level function,  *)
(* plus one per callable declared directly inside a top-level class, where *)
(* a callable is a def or an async def.                                    *)
(***************************************************************************)
C11_UnitCount ==
    ParsedValidFile =>
        Len(code_units) =
            1 + Cardinality(Positions(TheSource.stmts, {"ClassDef"}))
              + Cardinality(Positions(TheSource.stmts, CallableStmts))
              + Cardinality(ClassCallables(TheSource.stmts))

(***************************************************************************)
(* C12 as claimed: in the units of one file, every method's parent is the  *)
(* name of exactly one class unit emitted earlier, and no module, class or *)
(* function unit has a parent; also when two top-level classes share a     *)
(* name.                                                                   *)
(***************************************************************************)
C12_ParentExactlyOneClass ==
    ParsedValidFile =>
        \A k \in 1..Len(code_units) :
            IF code_units[k].type = "method"
            THEN Cardinality({c \in 1..(k - 1) :
                                 /\ code_units[c].type = "class"
                                 /\ code_units[c].name = code_units[k].parent}) = 1
            ELSE code_units[k].parent = None

(***************************************************************************)
(* C12 as amended: every method's parent is the name of the class unit     *)
(* emitted last before it, so at least one earlier class unit bears that   *)
(* name, and no module, class or function unit has a parent.               *)
(***************************************************************************)
C12_ParentIsNearestClass ==
    ParsedValidFile =>
        \A k \in 1..Len(code_units) :
            IF code_units[k].type = "method"
            THEN /\ Owner(code_units, k) # 0
                 /\ code_units[Owner(code_units, k)].type = "class"
                 /\ code_units[Owner(code_units, k)].name = code_units[k].parent
            ELSE code_units[k].parent = None

\* Two top-level classes of one name, each with a method.
C12_Witness ==
    /\ ParsedValidFile
    /\ \E c, d \in UnitsOfType(code_units, {"class"}) :
          /\ c < d
          /\ code_units[c].name = code_units[d].name
          /\ code_units[c + 1].type = "method"
          /\ d < Len(code_units)
          /\ code_units[d + 1].type = "method"

(***************************************************************************)
(* C13: a file that ast.parse does not accept contributes no unit and      *)
(* makes nothing leave parse: parse returns the units of the well-formed   *)
(* files, whichever files are malformed.                                   *)
(***************************************************************************)
C13_MalformedFileSkipped ==
    /\ \A p \in Visited : Malformed(p) => UnitsFrom(p) = <<>>
    /\ parse_state = "raised" => ~Malformed(visited[Len(visited)])

(***************************************************************************)
(* C14: a .py file that cannot be opened or decoded as UTF-8 is skipped:   *)
(* parse does not raise because of it and the file contributes no unit.    *)
(***************************************************************************)
C14_UnreadableFileSkipped ==
    /\ \A p \in Visited : UnreadableFile(p) => UnitsFrom(p) = <<>>
    /\ parse_state = "raised" => ~UnreadableFile(visited[Len(visited)])

(***************************************************************************)
(* C15: parse visits the files in lexicographic order of their relative    *)
(* paths, whatever order the file system lists directory entries in.       *)
(***************************************************************************)
C15_LexicographicOrder ==
    \A i, j \in 1..Len(visited) :
        i < j => StrLess(RelativePath(visited[i]), RelativePath(visited[j]))

Permuted(ds, p) == [i \in 1..Len(ds) |-> ds[p[i]]]

\* How often the result d occurs in the groups of `grouped`.
Occurrences(d) ==
    Cardinality({<<g, k>> \in (1..Len(grouped)) \X (1..Len(docs)) :
                    k <= Len(grouped[g].docs) /\ grouped[g].docs[k] = d})

\* Every member of every group is one of the results given.
OnlyGivenResults ==
    \A g \in 1..Len(grouped) : \A k \in 1..Len(grouped[g].docs) :
        \E i \in 1..Len(docs) : docs[i] = grouped[g].docs[k]

(***************************************************************************)
(* C17: grouping a list of results and grouping any permutation of it give *)
(* the same sequence of group keys and, in each group, the same sequence   *)
(* of results, in each mode, also when results of one group share a unit   *)
(* name.                                                                   *)
(***************************************************************************)
C17_GroupingIgnoresInputOrder ==
    render_state = "grouped" =>
        \A p \in Orders(1..Len(docs)) :
            GroupDocsOf(Permuted(docs, p), group_by, doc_format) = grouped

(***************************************************************************)
(* C18 as claimed: in each mode, every result given, a module's result     *)
(* included, is in exactly one group, once, and the groups hold nothing    *)
(* else.                                                                   *)
(***************************************************************************)
C18_GroupingIsPartition ==
    render_state = "grouped" =>
        /\ \A i \in 1..Len(docs) : Occurrences(docs[i]) = 1
        /\ OnlyGivenResults

(***************************************************************************)
(* C18 as amended: in the modes type and flat every result given is in     *)
(* exactly one group, once; in the mode module that holds of the results   *)
(* of classes, functions and methods, and the result of a module unit is   *)
(* in no group; the groups hold nothing else.                              *)
(***************************************************************************)
C18_PartitionButModulesByModule ==
    render_state = "grouped" =>
        /\ \A i \in 1..Len(docs) :
              Occurrences(docs[i]) =
                  IF group_by = "module" /\ docs[i].unit.type = "module" THEN 0 ELSE 1
        /\ OnlyGivenResults

\* Grouped by module: a module's result and the result of one of its units.
C18_Witness ==
    /\ render_state = "grouped"
    /\ group_by = "module"
    /\ \E i, j \in 1..Len(docs) :
          /\ docs[i].unit.type = "module"
          /\ docs[j].unit.type # "module"
          /\ Occurrences(docs[i]) = 0
          /\ Occurrences(docs[j]) = 1

(***************************************************************************)
(* C19: every unit has 1 <= line_start <= line_end; the module unit of a   *)
(* parsed file, the empty file included, spans line 1 to the file's line   *)
(* count; and every other unit of the file lies within that range.         *)
(***************************************************************************)
C19_LineRanges ==
    ParsedValidFile =>
        /\ code_units[1].line_start = 1
        /\ code_units[1].line_end = Len(Splitlines(TheSource))
        /\ \A k \in 1..Len(code_units) :
              /\ 1 <= code_units[k].line_start
              /\ code_units[k].line_start <= code_units[k].line_end
              /\ code_units[k].line_end <= code_units[1].line_end

(***************************************************************************)
(* C20: the units of a parsed file start with its one module unit; then    *)
(* come the top-level classes and functions in source order; the methods   *)
(* of a class follow its unit, in source order, before the next top-level  *)
(* unit.                                                                   *)
(***************************************************************************)
C20_UnitOrder ==
    ParsedValidFile =>
        LET us == code_units
            Top == UnitsOfType(us, {"class", "function"})
        IN /\ UnitsOfType(us, {"module"}) = {1}
           /\ \A j, k \in Top : j < k => us[j].line_end < us[k].line_start
           /\ \A i \in Positions(TheSource.stmts, {"ClassDef", "FunctionDef"}) :
                 \E k \in Top :
                    /\ us[k].name = TheSource.stmts[i].name
                    /\ us[k].line_end = Len(Splitlines(Source(SubSeq(TheSource.stmts, 1, i), TRUE)))
           /\ \A k \in UnitsOfType(us, {"method"}) :
                 /\ Owner(us, k) # 0
                 /\ us[Owner(us, k)].type = "class"
                 /\ us[Owner(us, k)].line_start < us[k].line_start
                 /\ us[k].line_end <= us[Owner(us, k)].line_end
                 /\ us[k - 1].type = "method" => us[k - 1].line_end < us[k].line_start

\* A class with two methods, followed by a top-level function.
C20_Witness ==
    /\ ParsedValidFile
    /\ \E k \in UnitsOfType(code_units, {"class"}) :
          /\ k + 3 <= Len(code_units)
          /\ code_units[k + 1].type = "method"
          /\ code_units[k + 2].type = "method"
          /\ code_units[k + 3].type = "function"

\* The group key the documentation states for a unit in the current mode.
StatedKey(u) ==
    IF group_by = "module" THEN u.module_path
    ELSE IF group_by = "type"
    THEN (CASE u.type = "module" -> "Module"
            [] u.type = "class" -> "Class"
            [] u.type = "function" -> "Function"
            [] u.type = "method" -> "Method")
    ELSE "All"

\* The unit names of the results of group g, in the group's order.
NamesOf(g) == [k \in 1..Len(grouped[g].docs) |-> grouped[g].docs[k].unit.name]

(***************************************************************************)
(* C21: in the mapping _group_docs returns, the group keys are in strictly *)
(* ascending lexicographic order, the results of every group are in        *)
(* ascending lexicographic order of unit name, and every result is under   *)
(* the key of its mode: its module path, its capitalized kind, or the one  *)
(* key of the flat mode.                                                   *)
(***************************************************************************)
C21_GroupsSorted ==
    render_state = "grouped" =>
        /\ \A g \in 1..(Len(grouped) - 1) :
              StrLess(Chars(grouped[g].key), Chars(grouped[g + 1].key))
        /\ \A g \in 1..Len(grouped) :
              /\ \A k \in 1..(Len(NamesOf(g)) - 1) :
                    ~StrLess(Chars(NamesOf(g)[k + 1]), Chars(NamesOf(g)[k]))
              /\ \A k \in 1..Len(grouped[g].docs) :
                    grouped[g].key = StatedKey(grouped[g].docs[k].unit)
              /\ grouped[g].docs # <<>>
        /\ group_by = "flat" => Len(grouped) <= 1

\* Groups first met in descending key order, and a group whose results were
\* given in descending name order.
C21_Witness ==
    /\ render_state = "grouped"
    /\ \E i, j \in 1..Len(docs) :
          /\ i < j
          /\ StrLess(Chars(StatedKey(docs[j].unit)), Chars(StatedKey(docs[i].unit)))
          /\ Occurrences(docs[i]) = 1 /\ Occurrences(docs[j]) = 1
    /\ \E i, j \in 1..Len(docs) :
          /\ i < j
          /\ StatedKey(docs[i].unit) = StatedKey(docs[j].unit)
          /\ StrLess(Chars(docs[j].unit.name), Chars(docs[i].unit.name))
          /\ Occurrences(docs[i]) = 1 /\ Occurrences(docs[j]) = 1

\* The fields _generate_doc_for_unit creates a result with.
CreatedFields == {"unit", "documentation", "from_cache", "error"}

(***************************************************************************)
(* C22 as claimed: a result is never mutated after its creation: no step   *)
(* of render, _group_docs included, changes a field of a result given to   *)
(* it, adds a field to it or changes its CodeUnit.                         *)
(***************************************************************************)
C22_ResultsNeverMutated ==
    [][docs' = docs]_vars

(***************************************************************************)
(* C22 as amended: _group_docs adds the two fields file_path and page_path *)
(* to every result given and nothing else: every field a result was        *)
(* created with, its CodeUnit included, keeps its value, and the list      *)
(* keeps its length and order; no other step of render changes a result.   *)
(***************************************************************************)
C22_OnlyPagePathsAdded ==
    [][/\ Len(docs') = Len(docs)
       /\ \A i \in 1..Len(docs) :
             /\ DOMAIN docs[i] \subseteq CreatedFields
                   => DOMAIN docs'[i] = DOMAIN docs[i] \cup {"file_path", "page_path"}
             /\ ~(DOMAIN docs[i] \subseteq CreatedFields) => docs'[i] = docs[i]
             /\ \A k \in DOMAIN docs[i] : docs'[i][k] = docs[i][k]]_vars

\* Results that have been through _group_docs.
C22_Witness ==
    /\ render_state # "idle"
    /\ docs # <<>>
    /\ \A i \in 1..Len(docs) :
          /\ DOMAIN docs[i] = {"unit", "documentation", "from_cache", "file_path", "page_path"}
          /\ docs[i].documentation = DocOf(docs[i].unit)

(***************************************************************************)
(* Vocabulary of the generator properties, continued.                      *)
(***************************************************************************)
\* The texts the backend can generate.
GeneratedTexts == {a.text : a \in {b \in backend : b.ok}}

\* The backend call of task i returned a text.
BackendSucceeded(i) == answer[i].ok

(***************************************************************************)
(* C23: with caching enabled, a result with status ok is emitted only      *)
(* after the generated text has been stored: at the step that ends a task  *)
(* with an ok result, the cache entry of the unit's fingerprint exists and *)
(* holds a generated text; and a task whose backend call succeeded never   *)
(* ends with a failed result.                                              *)
(***************************************************************************)
C23_OkOnlyAfterStored ==
    [][\A i \in Tasks :
          cache_dir # None =>
             /\ (~GeneratedOk(i) /\ GeneratedOk(i)') =>
                   \E t \in GeneratedTexts : files'[EntryPath(i)] = JsonDoc(t)
             /\ (BackendSucceeded(i)' /\ pc'[i] = "done" /\ ~fut'[i].raised) =>
                   Status(fut'[i].value) # "failed"]_vars

(***************************************************************************)
(* Vocabulary of the parser properties, continued.                         *)
(***************************************************************************)
\* The syntax tree of m.py.
TheTree == AstParse(TheSource).value

\* The elements of a sequence.
Range(s) == {s[i] : i \in 1..Len(s)}

\* The nodes below the nodes ns, at any depth.
RECURSIVE Below(_)
Below(ns) == UNION {Range(n.body) \cup Below(Range(n.body)) : n \in ns}

\* The statements directly in the module's body.
TopNodes == Range(TheTree.body)

\* The statements directly in the body of a top-level class, with the class.
ClassMembers ==
    {<<c, n>> \in TopNodes \X Below(TopNodes) : c.node = "ClassDef" /\ n \in Range(c.body)}

\* The definitions nested deeper: below a top-level statement that is not a
\* class, or below a member of a top-level class.
NestedDefs ==
    {n \in Below({t \in TopNodes : t.node # "ClassDef"})
              \cup Below({cm[2] : cm \in ClassMembers}) :
        n.node \in {"ClassDef", "FunctionDef", "AsyncFunctionDef"}}

(***************************************************************************)
(* C24: extraction does not go deeper than class -> method: every class    *)
(* unit and every function unit is the unit of a class or def that is a    *)
(* direct child of the module, every method unit is the unit of a def that *)
(* is a direct child of a top-level class, its parent, and no unit is the  *)
(* unit of a definition nested in a function, in a method, in a nested     *)
(* class or in another top-level statement.                                *)
(***************************************************************************)
C24_NoNestedUnits ==
    ParsedValidFile =>
        /\ \A k \in UnitsOfType(code_units, {"class"}) :
              \E n \in TopNodes :
                 /\ n.node = "ClassDef"
                 /\ n.name = code_units[k].name
                 /\ n.lineno = code_units[k].line_start
        /\ \A k \in UnitsOfType(code_units, {"function"}) :
              \E n \in TopNodes :
                 /\ n.node = "FunctionDef"
                 /\ n.name = code_units[k].name
                 /\ n.lineno = code_units[k].line_start
        /\ \A k \in UnitsOfType(code_units, {"method"}) :
              \E cm \in ClassMembers :
                 /\ cm[2].node = "FunctionDef"
                 /\ cm[2].name = code_units[k].name
                 /\ cm[2].lineno = code_units[k].line_start
                 /\ cm[1].name = code_units[k].parent
        /\ \A n \in NestedDefs :
              \A k \in 2..Len(code_units) : code_units[k].line_start # n.lineno

\* A file with a function nested in a function, a class nested in a function,
\* and a def in the body of an if statement; the outer function has a unit.
C24_Witness ==
    /\ ParsedValidFile
    /\ \E n \in NestedDefs : n.node = "FunctionDef" /\ n.name = "h"
    /\ \E n \in NestedDefs : n.node = "ClassDef" /\ n.name = "Local"
    /\ \E t \in TopNodes : t.node = "If" /\ Range(t.body) \cap NestedDefs # {}
    /\ \E k \in UnitsOfType(code_units, {"function"}) : code_units[k].name = "outer"

\* The lines of m.py.
TheLines == Splitlines(TheSource)

\* The first line of the construct of node n: the first of the decorator
\* lines right above its def or class line, or that line itself.
FirstLine(n) ==
    CHOOSE l \in 1..n.lineno :
        /\ \A d \in l..(n.lineno - 1) : TheLines[d] = "@dec"
        /\ l > 1 => TheLines[l - 1] # "@dec"

(***************************************************************************)
(* C25: for every class, function and method unit, the source text is the  *)
(* file's lines line_start..line_end joined by newlines, line_end is the   *)
(* last line the parser reports for the construct, and line_start is the   *)
(* first line of the whole construct, the decorator lines above the        *)
(* declaration included.                                                   *)
(***************************************************************************)
C25_SourceSpansConstruct ==
    ParsedValidFile =>
        \A k \in 2..Len(code_units) :
            /\ code_units[k].source =
                  JoinLines(SubSeq(TheLines, code_units[k].line_start, code_units[k].line_end))
            /\ \E n \in TopNodes \cup {cm[2] : cm \in ClassMembers} :
                  /\ n.name = code_units[k].name
                  /\ n.end_lineno = code_units[k].line_end
                  /\ FirstLine(n) = code_units[k].line_start

(***************************************************************************)
(* C26: generate_docs returns its results in input order: in every order   *)
(* in which the workers complete, the i-th element of the list collected   *)
(* and returned is the result task i produced, whose unit is the i-th      *)
(* input unit, and the returned list has one element per input unit.       *)
(***************************************************************************)
C26_ResultsInInputOrder ==
    /\ Len(results) <= Len(units)
    /\ \A i \in 1..Len(results) :
          /\ results[i].unit = units[i]
          /\ pc[i] = "done" /\ ~fut[i].raised /\ results[i] = fut[i].value
    /\ phase = "returned" => Len(results) = Len(units)

\* A returned list for two different units with different results.
C26_Witness ==
    /\ phase = "returned"
    /\ Len(results) = 2
    /\ units[1] # units[2]
    /\ Status(results[1]) = "ok"
    /\ Status(results[2]) = "failed"

\* Nothing has been stored in the cache directory, before or during the run:
\* entries are never removed, so the run started with an empty cache.
CacheStillEmpty == cache_dir # None /\ writable /\ files = NoFiles

(***************************************************************************)
(* C27: within one run of generate_docs with caching enabled that starts   *)
(* with an empty cache, the backend is invoked at most once per            *)
(* fingerprint: of the tasks whose units have the same (type, name,        *)
(* source), at most one has reached the backend, under every interleaving  *)
(* of the workers. Stated of the states of such runs in which no task has  *)
(* opened a cache entry yet.                                               *)
(***************************************************************************)
C27_OneCallPerFingerprint ==
    CacheStillEmpty =>
        \A i, j \in Tasks :
            (Triple(units[i]) = Triple(units[j]) /\ calls[i] > 0 /\ calls[j] > 0) => i = j

\* This step ends task i with a failed result.
EndsFailed(i) ==
    /\ pc[i] # "done"
    /\ pc'[i] = "done"
    /\ ~fut'[i].raised
    /\ Status(fut'[i].value) = "failed"

(***************************************************************************)
(* C28: a failed generation leaves the cache unchanged: when the           *)
(* processing of a unit ends with a failed result, that processing has not *)
(* opened the unit's cache entry for writing (which creates or truncates   *)
(* it) and its last step changes no file, so the entry does not hold the   *)
(* failure text and a later generation of the unit asks the backend again. *)
(***************************************************************************)
C28_FailureLeavesCache ==
    [][\A i \in Tasks :
          (cache_dir # None /\ EndsFailed(i)) =>
              /\ pc[i] # "write"
              /\ files' = files
              /\ files'[EntryPath(i)] # JsonDoc(fut'[i].value.documentation)]_vars

(***************************************************************************)
(* C29: load_config never changes the defaults: after any sequence of      *)
(* calls with any user files, the section dictionaries of DEFAULT_CONFIG   *)
(* hold their initial values, and a call that finds no file returns a      *)
(* dictionary whose sections hold exactly the default values.              *)
(***************************************************************************)
C29_DefaultsUnchanged ==
    /\ sections = DefaultSections
    /\ (load_state = "returned" /\ config_file = NoFile) =>
          /\ DOMAIN config = DOMAIN DefaultSections
          /\ \A k \in DOMAIN config :
                config[k].kind = "ref" /\ sections[config[k].id] = DefaultSections[k]

(***************************************************************************)
(* C30: render writes one page per result without overwriting: for every   *)
(* list of results of distinct units, units that share a name included,    *)
(* the page paths _group_docs assigned are pairwise distinct and none is   *)
(* the index, and when render has returned the page file of every result   *)
(* holds the page of that result's documentation.                          *)
(***************************************************************************)
C30_OnePagePerResult ==
    render_state = "rendered" =>
        /\ \A i, j \in 1..Len(docs) :
              docs[i].file_path = docs[j].file_path => i = j
        /\ \A i \in 1..Len(docs) :
              /\ docs[i].file_path # IndexPath(doc_format)
              /\ pages[docs[i].file_path] = PageOf(docs[i], doc_format)

====
